---- MODULE Spec2Model ----
(***************************************************************************)
(* Model of the two exercises of the repository:                           *)
(*   BD1/main.py            - the sqlite3 script (connect, CREATE TABLE,   *)
(*                            executemany, commit, SELECT, print, close)   *)
(*   shape/nivel1/circle.py - the Circle class with its self-referential   *)
(*                            _radius property                             *)
(* The store (example.db) survives from one run of the script to the next; *)
(* everything else belongs to one process and is reset by NewRun.          *)
(***************************************************************************)
EXTENDS Integers, Sequences, FiniteSets, TLC

\* ---------------------------------------------------------------- bounds
\* number of runs of main.py against the same example.db
MaxRuns == 3
\* radii tried for Circle(r): -MaxRadius..MaxRadius
MaxRadius == 5
\* depth at which the interpreter stops a runaway recursion (RecursionError)
MaxDepth == 20

VARIABLES
    db,          \* example.db: [exists, master, rows, seq], the durable state
    txn,         \* the connection's open transaction: [active, rows, seq]
    conn,        \* connection (line 4): "none", "open", "closed"
    cursor,      \* cursor (line 7): "none", "idle", "results"
    cursorRows,  \* rows the cursor holds after execute("SELECT ...")
    users,       \* the list users (line 32)
    idx,         \* position of the for loop of line 36 in users
    out,         \* lines printed on standard output
    pc,          \* statement the script is at
    raisedAt,    \* operation whose statement raised, "none" if none did
    cause,       \* why it raised: "none", "environment" (the file, the disk,
                 \* the output cannot be used), "statement" (the statement
                 \* is an error in this state of the store)
    exitStatus,  \* exit status of the process, -1 while it runs
    closeCount,  \* executions of connection.close() in this run
    steps,       \* operations completed in this run, in order
    runs,        \* runs started so far
    okRuns,      \* runs that ended with status 0
    rowsAtStart, \* Len(db.rows) when this run started
    cpc,         \* Circle: "idle", "setter", "raised", "constructed"
    cvalue,      \* Circle: the value handed to the setter
    cdepth,      \* Circle: nested activations of the setter
    cstored,     \* Circle: sequence holding the stored radius, <<>> if none
    cexc         \* Circle: exception raised, "none" if none

dbVars == <<db, txn, conn, cursor, cursorRows, users, idx, out, pc, raisedAt,
            cause, exitStatus, closeCount, steps, runs, okRuns, rowsAtStart>>
circleVars == <<cpc, cvalue, cdepth, cstored, cexc>>
vars == <<db, txn, conn, cursor, cursorRows, users, idx, out, pc, raisedAt,
          cause, exitStatus, closeCount, steps, runs, okRuns, rowsAtStart,
          cpc, cvalue, cdepth, cstored, cexc>>

\* ------------------------------------------------------------ main.py data
\* lines 11-16: the column definitions of CREATE TABLE users
UsersColumnsNullableAge ==
    << [name |-> "id",   type |-> "INTEGER", pk |-> TRUE,  autoinc |-> TRUE,  notnull |-> FALSE],
       [name |-> "name", type |-> "TEXT",    pk |-> FALSE, autoinc |-> FALSE, notnull |-> TRUE],
       [name |-> "age",  type |-> "INTEGER", pk |-> FALSE, autoinc |-> FALSE, notnull |-> FALSE],
       [name |-> "rol",  type |-> "TEXT",    pk |-> FALSE, autoinc |-> FALSE, notnull |-> TRUE] >>

UsersColumns ==
    << [name |-> "id",   type |-> "INTEGER", pk |-> TRUE,  autoinc |-> TRUE,  notnull |-> FALSE],
       [name |-> "name", type |-> "TEXT",    pk |-> FALSE, autoinc |-> FALSE, notnull |-> TRUE],
       [name |-> "age",  type |-> "INTEGER", pk |-> FALSE, autoinc |-> FALSE, notnull |-> TRUE],
       [name |-> "rol",  type |-> "TEXT",    pk |-> FALSE, autoinc |-> FALSE, notnull |-> TRUE] >>

\* lines 20-25
user_dataSwapped ==
    << <<"Ana",   25, "admin">>,
       <<"Basir", 15, "normal">>,
       <<"Luis",  35, "normal">>,
       <<"Maria", 28, "admin">> >>

user_data ==
    << <<"Basir", 15, "normal">>,
       <<"Ana",   25, "admin">>,
       <<"Luis",  35, "normal">>,
       <<"Maria", 28, "admin">> >>

\* line 26: the column list of the INSERT statement
InsertColumns == <<"name", "age", "rol">>

\* line 34
Header == "------ Usuarios en la base de datos ------"

\* line 37: the f-string, user being one tuple of SELECT * (0-based 1,2,3)
Format(user) ==
    "User -> " \o user[2] \o " | Age -> " \o ToString(user[3]) \o " | Rol -> " \o user[4]


\* ------------------------------------------------- the store (sqlite engine)
Max(a, b) == IF a >= b THEN a ELSE b

RECURSIVE MaxId(_)
\* largest id among rows, 0 for no rows
MaxId(rows) ==
    IF rows = <<>> THEN 0
    ELSE Max(rows[Len(rows)].id, MaxId(SubSeq(rows, 1, Len(rows) - 1)))

HasTable(master, name) == \E i \in 1..Len(master) : master[i].name = name

\* lines 10-17: CREATE TABLE IF NOT EXISTS users (...), on the schema table.
\* err is the error the statement raises by itself, "none" if it raises none.
CreateTableNoGuard(master) ==
    [err    |-> IF HasTable(master, "users") THEN "OperationalError" ELSE "none",
     master |-> IF HasTable(master, "users") THEN master
                ELSE Append(master, [name |-> "users", cols |-> UsersColumns])]

CreateTableIfNotExists(master) ==
    [err    |-> "none",
     master |-> IF HasTable(master, "users") THEN master
                ELSE Append(master, [name |-> "users", cols |-> UsersColumns])]

\* line 12: id INTEGER PRIMARY KEY AUTOINCREMENT. The id of a new row is one
\* more than the largest id the table ever held (sqlite_sequence, seq) and
\* than the largest id it holds.
NextIdInBatch(seq, rows) == (Len(rows) % Len(user_data)) + 1

NextId(seq, rows) == Max(seq, MaxId(rows)) + 1

\* line 26: one row of INSERT INTO users (name, age, rol) VALUES (?, ?, ?):
\* the tuple's values go to InsertColumns by position, id is assigned.
NewRow(id, tuple) ==
    [c \in {"id"} \cup {InsertColumns[j] : j \in 1..Len(InsertColumns)} |->
        IF c = "id" THEN id
        ELSE tuple[CHOOSE j \in 1..Len(InsertColumns) : InsertColumns[j] = c]]

\* the rows and the sequence the connection sees: committed, then pending
View(d, t) == d.rows \o t.rows
ViewSeq(d, t) == IF t.active THEN t.seq ELSE d.seq

RECURSIVE InsertMany(_, _, _, _)
\* line 26: the first k tuples of data inserted one after the other
InsertMany(d, t, data, k) ==
    IF k = 0 THEN t
    ELSE LET prev == InsertMany(d, t, data, k - 1)
             id   == NextId(ViewSeq(d, prev), View(d, prev))
         IN  [active |-> TRUE,
              rows   |-> Append(prev.rows, NewRow(id, data[k])),
              seq    |-> id]

NoTxn == [active |-> FALSE, rows |-> <<>>, seq |-> 0]

\* line 26: cursor.executemany: the inserts open a transaction implicitly
\* and stay pending in it; nothing reaches the file before commit.
ExecutemanyAutocommit(d, t, data, k) ==
    LET after == InsertMany(d, t, data, k)
    IN  [db  |-> [d EXCEPT !.rows = d.rows \o after.rows,
                           !.seq = IF after.active THEN after.seq ELSE d.seq],
         txn |-> NoTxn]

Executemany(d, t, data, k) ==
    [db |-> d, txn |-> InsertMany(d, t, data, k)]

\* line 27: connection.commit()
CommitTxn(d, t) ==
    IF t.active THEN [d EXCEPT !.rows = d.rows \o t.rows, !.seq = t.seq]
    ELSE d

\* line 30: SELECT * FROM users: one tuple per row, in rowid order, the
\* values in the order of the table's columns
TableCols(master) ==
    master[CHOOSE i \in 1..Len(master) : master[i].name = "users"].cols

SelectAllReversed(d, t) ==
    LET cols == TableCols(d.master)
        rows == View(d, t)
    IN  [i \in 1..Len(rows) |->
            [j \in 1..Len(cols) |-> rows[Len(rows) + 1 - i][cols[j].name]]]

SelectAll(d, t) ==
    LET cols == TableCols(d.master)
        rows == View(d, t)
    IN  [i \in 1..Len(rows) |-> [j \in 1..Len(cols) |-> rows[i][cols[j].name]]]


\* ------------------------------------------------------- main.py, the script
\* The script has no try/except/finally: the statement that raises ends the
\* script there, whatever statement would have been next.
OnErrorSwallow(next) == next

OnError(next) == "unwind"

\* the interpreter's exit status: 1 for an uncaught exception, 0 otherwise
ExitStatus(at) == IF at = "none" THEN 0 ELSE 1

\* line 36: the for loop goes to the next element of users
NextIndexSkipping(i) == i + 2

NextIndex(i) == i + 1

AfterPrint(i) == IF i <= Len(users) THEN "loop" ELSE "close"

\* line 4: connection = sqlite3.connect('example.db')
Connect ==
    /\ pc = "connect"
    /\ \E fault \in BOOLEAN :
        IF fault
        THEN /\ raisedAt' = "Open"
             /\ cause' = "environment"
             /\ pc' = OnError("cursor")
             /\ UNCHANGED <<db, conn>>
        ELSE /\ conn' = "open"
             /\ db' = [db EXCEPT !.exists = TRUE]
             /\ pc' = "cursor"
             /\ UNCHANGED <<raisedAt, cause>>
    /\ UNCHANGED <<txn, cursor, cursorRows, users, idx, out, exitStatus,
                   closeCount, steps, runs, okRuns, rowsAtStart>>
    /\ UNCHANGED circleVars

\* line 7: cursor = connection.cursor()
Cursor ==
    /\ pc = "cursor"
    /\ conn = "open"
    /\ cursor' = "idle"
    /\ steps' = Append(steps, "Open")
    /\ pc' = "create"
    /\ UNCHANGED <<db, txn, conn, cursorRows, users, idx, out, raisedAt,
                   cause, exitStatus, closeCount, runs, okRuns, rowsAtStart>>
    /\ UNCHANGED circleVars

\* lines 10-17: cursor.execute(CREATE TABLE IF NOT EXISTS users ...)
\* A CREATE TABLE outside a transaction is committed as it runs.
CreateTable ==
    /\ pc = "create"
    /\ conn = "open"
    /\ \E fault \in BOOLEAN :
        LET r == CreateTableIfNotExists(db.master)
        IN  IF fault \/ r.err # "none"
            THEN /\ raisedAt' = "EnsureSchema"
                 /\ cause' = IF fault THEN "environment" ELSE "statement"
                 /\ pc' = OnError("executemany")
                 /\ UNCHANGED <<db, steps>>
            ELSE /\ db' = [db EXCEPT !.master = r.master]
                 /\ steps' = Append(steps, "EnsureSchema")
                 /\ pc' = "executemany"
                 /\ UNCHANGED <<raisedAt, cause>>
    /\ UNCHANGED <<txn, conn, cursor, cursorRows, users, idx, out, exitStatus,
                   closeCount, runs, okRuns, rowsAtStart>>
    /\ UNCHANGED circleVars

\* line 26: cursor.executemany(INSERT ..., user_data); k tuples are inserted
\* before the statement fails, all of them when it does not fail
ExecutemanyStmt ==
    /\ pc = "executemany"
    /\ conn = "open"
    /\ \E k \in 0..Len(user_data) :
        LET r == Executemany(db, txn, user_data, k)
        IN  /\ db' = r.db
            /\ txn' = r.txn
            /\ IF k < Len(user_data)
               THEN /\ raisedAt' = "SeedRecords"
                    /\ cause' = "environment"
                    /\ pc' = OnError("commit")
               ELSE /\ pc' = "commit"
                    /\ UNCHANGED <<raisedAt, cause>>
    /\ UNCHANGED <<conn, cursor, cursorRows, users, idx, out, exitStatus,
                   closeCount, steps, runs, okRuns, rowsAtStart>>
    /\ UNCHANGED circleVars

\* line 27: connection.commit()
Commit ==
    /\ pc = "commit"
    /\ conn = "open"
    /\ \E fault \in BOOLEAN :
        IF fault
        THEN /\ raisedAt' = "SeedRecords"
             /\ cause' = "environment"
             /\ pc' = OnError("select")
             /\ UNCHANGED <<db, txn, steps>>
        ELSE /\ db' = CommitTxn(db, txn)
             /\ txn' = NoTxn
             /\ steps' = Append(steps, "SeedRecords")
             /\ pc' = "select"
             /\ UNCHANGED <<raisedAt, cause>>
    /\ UNCHANGED <<conn, cursor, cursorRows, users, idx, out, exitStatus,
                   closeCount, runs, okRuns, rowsAtStart>>
    /\ UNCHANGED circleVars

\* line 30: cursor.execute("SELECT * FROM users")
Select ==
    /\ pc = "select"
    /\ conn = "open"
    /\ \E fault \in BOOLEAN :
        IF fault \/ ~HasTable(db.master, "users")
        THEN /\ raisedAt' = "FetchAll"
             /\ cause' = IF fault THEN "environment" ELSE "statement"
             /\ pc' = OnError("fetchall")
             /\ UNCHANGED <<cursor, cursorRows>>
        ELSE /\ cursorRows' = SelectAll(db, txn)
             /\ cursor' = "results"
             /\ pc' = "fetchall"
             /\ UNCHANGED <<raisedAt, cause>>
    /\ UNCHANGED <<db, txn, conn, users, idx, out, exitStatus, closeCount,
                   steps, runs, okRuns, rowsAtStart>>
    /\ UNCHANGED circleVars

\* line 32: users = cursor.fetchall()
Fetchall ==
    /\ pc = "fetchall"
    /\ conn = "open"
    /\ \E fault \in BOOLEAN :
        IF fault
        THEN /\ raisedAt' = "FetchAll"
             /\ cause' = "environment"
             /\ pc' = OnError("header")
             /\ UNCHANGED <<cursor, cursorRows, users, steps>>
        ELSE /\ users' = cursorRows
             /\ cursorRows' = <<>>
             /\ cursor' = "idle"
             /\ steps' = Append(steps, "FetchAll")
             /\ pc' = "header"
             /\ UNCHANGED <<raisedAt, cause>>
    /\ UNCHANGED <<db, txn, conn, idx, out, exitStatus, closeCount, runs,
                   okRuns, rowsAtStart>>
    /\ UNCHANGED circleVars

\* line 34: print(header)
PrintHeader ==
    /\ pc = "header"
    /\ \E fault \in BOOLEAN :
        IF fault
        THEN /\ raisedAt' = "Render"
             /\ cause' = "environment"
             /\ pc' = OnError("loop")
             /\ UNCHANGED <<out, idx, steps>>
        ELSE /\ out' = Append(out, Header)
             /\ idx' = 1
             /\ pc' = AfterPrint(1)
             /\ steps' = IF AfterPrint(1) = "close" THEN Append(steps, "Render") ELSE steps
             /\ UNCHANGED <<raisedAt, cause>>
    /\ UNCHANGED <<db, txn, conn, cursor, cursorRows, users, exitStatus,
                   closeCount, runs, okRuns, rowsAtStart>>
    /\ UNCHANGED circleVars

\* lines 36-37: one iteration of for user in users: print(f"...")
PrintUser ==
    /\ pc = "loop"
    /\ idx <= Len(users)
    /\ \E fault \in BOOLEAN :
        IF fault
        THEN /\ raisedAt' = "Render"
             /\ cause' = "environment"
             /\ pc' = OnError("loop")
             /\ UNCHANGED <<out, idx, steps>>
        ELSE /\ out' = Append(out, Format(users[idx]))
             /\ idx' = NextIndex(idx)
             /\ pc' = AfterPrint(NextIndex(idx))
             /\ steps' = IF AfterPrint(NextIndex(idx)) = "close"
                         THEN Append(steps, "Render") ELSE steps
             /\ UNCHANGED <<raisedAt, cause>>
    /\ UNCHANGED <<db, txn, conn, cursor, cursorRows, users, exitStatus,
                   closeCount, runs, okRuns, rowsAtStart>>
    /\ UNCHANGED circleVars

\* line 40: connection.close(); a pending transaction is rolled back
Close ==
    /\ pc = "close"
    /\ conn = "open"
    /\ \E fault \in BOOLEAN :
        IF fault
        THEN /\ raisedAt' = "Close"
             /\ cause' = "environment"
             /\ pc' = OnError("end")
             /\ UNCHANGED <<conn, txn, closeCount, steps>>
        ELSE /\ conn' = "closed"
             /\ txn' = NoTxn
             /\ closeCount' = closeCount + 1
             /\ steps' = Append(steps, "Close")
             /\ pc' = "end"
             /\ UNCHANGED <<raisedAt, cause>>
    /\ UNCHANGED <<db, cursor, cursorRows, users, idx, out, exitStatus, runs,
                   okRuns, rowsAtStart>>
    /\ UNCHANGED circleVars

\* The process ends: after line 40, or where a statement raised. What the
\* transaction held and was not committed never reaches the file.
Terminate ==
    /\ pc \in {"unwind", "end"}
    /\ exitStatus' = ExitStatus(raisedAt)
    /\ okRuns' = IF ExitStatus(raisedAt) = 0 THEN okRuns + 1 ELSE okRuns
    /\ txn' = NoTxn
    /\ pc' = "exited"
    /\ UNCHANGED <<db, conn, cursor, cursorRows, users, idx, out, raisedAt,
                   cause, closeCount, steps, runs, rowsAtStart>>
    /\ UNCHANGED circleVars

\* python main.py once more, on the example.db the runs before left
NewRun ==
    /\ pc = "exited"
    /\ runs < MaxRuns
    /\ runs' = runs + 1
    /\ rowsAtStart' = Len(db.rows)
    /\ conn' = "none"
    /\ cursor' = "none"
    /\ cursorRows' = <<>>
    /\ users' = <<>>
    /\ idx' = 0
    /\ out' = <<>>
    /\ raisedAt' = "none"
    /\ cause' = "none"
    /\ exitStatus' = -1
    /\ closeCount' = 0
    /\ steps' = <<>>
    /\ txn' = NoTxn
    /\ pc' = "connect"
    /\ UNCHANGED <<db, okRuns>>
    /\ UNCHANGED circleVars

\* ------------------------------------------------------------- circle.py
Radii == (0 - MaxRadius)..MaxRadius

\* line 13: self._radius = value. _radius is the property of lines 5-10, so
\* the assignment calls the setter of line 10 again.
AssignTargetField == "field"

AssignTarget == "setter"

\* line 26 (circle = Circle(r)) and lines 2-3: __init__ assigns self._radius
CircleCall ==
    /\ cpc = "idle"
    /\ \E r \in Radii :
        /\ cvalue' = r
        /\ cdepth' = 1
        /\ cpc' = "setter"
    /\ UNCHANGED <<cstored, cexc>>
    /\ UNCHANGED dbVars

\* lines 10-13: one activation of the setter
Setter ==
    /\ cpc = "setter"
    /\ IF cvalue < 0
       THEN /\ cexc' = "ValueError"
            /\ cpc' = "raised"
            /\ UNCHANGED <<cdepth, cstored>>
       ELSE IF AssignTarget = "setter"
            THEN IF cdepth < MaxDepth
                 THEN /\ cdepth' = cdepth + 1
                      /\ UNCHANGED <<cpc, cexc, cstored>>
                 ELSE /\ cexc' = "RecursionError"
                      /\ cpc' = "raised"
                      /\ UNCHANGED <<cdepth, cstored>>
            ELSE /\ cstored' = <<cvalue>>
                 /\ cpc' = "constructed"
                 /\ UNCHANGED <<cdepth, cexc>>
    /\ UNCHANGED cvalue
    /\ UNCHANGED dbVars

InitDB ==
    /\ db = [exists |-> FALSE, master |-> <<>>, rows |-> <<>>, seq |-> 0]
    /\ txn = NoTxn
    /\ conn = "none"
    /\ cursor = "none"
    /\ cursorRows = <<>>
    /\ users = <<>>
    /\ idx = 0
    /\ out = <<>>
    /\ pc = "connect"
    /\ raisedAt = "none"
    /\ cause = "none"
    /\ exitStatus = -1
    /\ closeCount = 0
    /\ steps = <<>>
    /\ runs = 1
    /\ okRuns = 0
    /\ rowsAtStart = 0

InitCircle ==
    /\ cpc = "idle"
    /\ cvalue = 0
    /\ cdepth = 0
    /\ cstored = <<>>
    /\ cexc = "none"

Init == InitDB /\ InitCircle

Next ==
    \/ Connect
    \/ Cursor
    \/ CreateTable
    \/ ExecutemanyStmt
    \/ Commit
    \/ Select
    \/ Fetchall
    \/ PrintHeader
    \/ PrintUser
    \/ Close
    \/ Terminate
    \/ NewRun

Spec == Init /\ [][Next]_vars

NextCircle ==
    \/ CircleCall
    \/ Setter

SpecCircle == Init /\ [][NextCircle]_vars

\* ================================================================ claims
IsPrefix(a, b) == Len(a) <= Len(b) /\ SubSeq(b, 1, Len(a)) = a

FullOrder == <<"Open", "EnsureSchema", "SeedRecords", "FetchAll", "Render", "Close">>

Did(op) == \E i \in 1..Len(steps) : steps[i] = op

Opened == conn # "none"

\* the seed tuples as the specification lists them
SeedTuples ==
    << <<"Basir", 15, "normal">>, <<"Ana", 25, "admin">>,
       <<"Luis", 35, "normal">>, <<"Maria", 28, "admin">> >>

\* C1: a run that opened the connection has closed it (line 40 executed) by
\* the time the process has exited, whatever step failed.
C1_ClosedOnEveryExit ==
    (pc = "exited" /\ Opened) => conn = "closed"

\* C2: after N runs that all succeeded on a store that started empty, the
\* N-th run's FetchAll returned 4*N records, ids 1..4*N ascending, record
\* 4*k+j carrying the j-th seed tuple.
ExpectedUsers(n) ==
    [i \in 1..(4 * n) |-> <<i>> \o SeedTuples[((i - 1) % 4) + 1]]

\* every run before the current one ended with status 0
PriorRunsSucceeded ==
    okRuns = IF pc = "exited" /\ exitStatus = 0 THEN runs ELSE runs - 1

C2_SeedPerRun ==
    (Did("FetchAll") /\ PriorRunsSucceeded) => users = ExpectedUsers(runs)

C2_Witness ==
    pc = "exited" /\ runs = 2 /\ okRuns = 2 /\ Len(users) = 8

\* C3: EnsureSchema on a store that already has the users table raises no
\* error of its own, leaves exactly one users table and leaves the stored
\* rows as they were.
UsersTables(master) == {i \in 1..Len(master) : master[i].name = "users"}

C3_SchemaIdempotent ==
    [][(pc = "create" /\ HasTable(db.master, "users") /\ pc' # "create")
        => /\ cause' # "statement"
           /\ Cardinality(UsersTables(db'.master)) = 1
           /\ db'.master = db.master
           /\ db'.rows = db.rows
           /\ db'.seq = db.seq
           /\ txn' = txn]_vars

C3_Witness ==
    pc = "executemany" /\ runs = 2 /\ Len(db.rows) = 4 /\ Did("EnsureSchema")

\* C4: in every state of the file the rows the current run added to it are
\* none or the four of the batch, so the stored row count is a multiple of 4.
C4_BatchAtomic ==
    /\ Len(db.rows) - rowsAtStart \in {0, 4}
    /\ Len(db.rows) % 4 = 0

C4_Witness ==
    pc = "unwind" /\ raisedAt = "SeedRecords" /\ rowsAtStart = 4
    /\ Len(txn.rows) = 3 /\ Len(db.rows) = 4

\* C5: a run in which EnsureSchema, SeedRecords or FetchAll failed prints
\* nothing and exits with a status other than 0; a run exits with status 0
\* only after Open, EnsureSchema, SeedRecords, FetchAll, Render and Close all
\* completed.
C5_FailureStopsRun ==
    /\ raisedAt \in {"EnsureSchema", "SeedRecords", "FetchAll"}
         => /\ out = <<>>
            /\ ~Did("Render")
            /\ pc = "exited" => exitStatus # 0
    /\ (pc = "exited" /\ exitStatus = 0) => steps = FullOrder

C5_Witness ==
    pc = "exited" /\ raisedAt = "FetchAll" /\ exitStatus = 1 /\ out = <<>>

\* C6: at most one connection is open, a run that opened the connection
\* executes Close exactly once, and the connection is used neither before
\* Open nor after Close.
C6_ExactlyOneClose ==
    /\ closeCount <= 1
    /\ (pc = "exited" /\ Opened) => closeCount = 1
    /\ conn = "closed" => pc \in {"end", "exited"}
    /\ pc \in {"create", "executemany", "commit", "select", "fetchall"}
         => conn = "open"

\* C7: ids are unique among the rows of the store; a stored row is never
\* changed or removed; every row inserted gets the largest id plus one, the
\* first row of an empty store id 1.
UniqueIds(rows) ==
    \A i, j \in 1..Len(rows) : rows[i].id = rows[j].id => i = j

C7_Ids ==
    /\ [](UniqueIds(View(db, txn)))
    /\ [][/\ IsPrefix(db.rows, db'.rows)
          /\ \A i \in (Len(View(db, txn)) + 1)..Len(View(db', txn')) :
                View(db', txn')[i].id
                    = MaxId(SubSeq(View(db', txn'), 1, i - 1)) + 1]_vars

C7_Witness ==
    pc = "unwind" /\ runs = 3 /\ rowsAtStart = 4 /\ okRuns = 1
    /\ Len(txn.rows) = 2 /\ txn.rows[1].id = 5

\* C8: the operations of a run complete in the order Open, EnsureSchema,
\* SeedRecords, FetchAll, Render, Close; the output is the header, then one
\* line per fetched record in the fetched order, and a run that succeeded
\* printed 1 + (rows fetched) lines, the rows it seeded among them.
RenderedSoFar ==
    \A i \in 1..Len(out) :
        out[i] = IF i = 1 THEN Header ELSE Format(users[i - 1])

C8_OrderAndOutput ==
    /\ IsPrefix(steps, FullOrder)
    /\ Len(out) <= 1 + Len(users)
    /\ RenderedSoFar
    /\ (pc = "exited" /\ exitStatus = 0)
         => /\ steps = FullOrder
            /\ Len(out) = 1 + Len(users)
            /\ Len(users) = rowsAtStart + 4
            /\ \A j \in 1..4 :
                 SubSeq(users[rowsAtStart + j], 2, 4) = SeedTuples[j]

C8_Witness ==
    pc = "exited" /\ exitStatus = 0 /\ runs = 2 /\ Len(out) = 9
    /\ out[3] = "User -> Ana | Age -> 25 | Rol -> admin"

\* C9 (as stated): after EnsureSchema the users table has the columns
\* (id, name, age, role) and SeedRecords inserts into (name, age, role).
ColumnNames(cols) == [i \in 1..Len(cols) |-> cols[i].name]

NotNullColumns(cols) == {cols[i].name : i \in {j \in 1..Len(cols) : cols[j].notnull}}

AutoIncColumns(cols) ==
    {cols[i].name : i \in {j \in 1..Len(cols) : cols[j].pk /\ cols[j].autoinc}}

SchemaIs(names, inserted) ==
    Did("EnsureSchema")
        => /\ Cardinality(UsersTables(db.master)) = 1
           /\ ColumnNames(TableCols(db.master)) = names
           /\ NotNullColumns(TableCols(db.master)) = inserted
           /\ AutoIncColumns(TableCols(db.master)) = {"id"}
           /\ \A i \in 1..Len(View(db, txn)) :
                DOMAIN View(db, txn)[i] = {"id"} \cup inserted

C9_ColumnsRole ==
    SchemaIs(<<"id", "name", "age", "role">>, {"name", "age", "role"})

\* C9 (amended): the fourth column is named rol.
C9_ColumnsRol ==
    SchemaIs(<<"id", "name", "age", "rol">>, {"name", "age", "rol"})

C9_Witness ==
    pc = "commit" /\ runs = 1 /\ Len(txn.rows) = 4 /\ Did("EnsureSchema")

====
